---- MODULE Spec2Model ----
(***************************************************************************)
(* Ticket lifecycle, permission-derived roles and notification fan-out of  *)
(* backend/server.py.  Every HTTP handler is one action; the MongoDB       *)
(* collections it touches are the variables.                               *)
(***************************************************************************)
EXTENDS Integers, Sequences, FiniteSets, TLC

\* ------------------------------------------------------------------ bounds
MaxTime == 2          \* ticket mutations per run of Spec
MaxTickets == 1       \* tickets created per run
MaxDeptEdits == 1     \* department edits per run
MaxAssignTime == 3    \* ticket mutations per run of SpecAssign

\* ------------------------------------------------------ values and inputs
None == "none"        \* Python None
NoTime == 0           \* a datetime field that is None
Empty == ""           \* the empty string

Falsy(v) == v = None \/ v = Empty

Kinds == {"sms", "voice"}

Statuses ==
    {"Unassigned", "Assigned", "Awaiting Vendor", "Awaiting Client",
     "Awaiting AM", "Resolved", "Unresolved"}

Users == {"ad", "n1", "n2", "a1", "a2"}

UserOrder == <<"ad", "n1", "n2", "a1", "a2">>     \* insertion order of db.users

DeptIds == {"dept_admin", "dept_sms_sales", "dept_voice_sales", "dept_noc"}

ClientIds == {"e1", "e2", "e3"}

Websockets == {"w1", "w2", "w3"}                     \* the WebSocket objects

PrefKeys ==
    {"notify_on_ticket_created", "notify_on_ticket_assigned",
     "notify_on_ticket_awaiting_vendor", "notify_on_ticket_awaiting_client",
     "notify_on_ticket_awaiting_am", "notify_on_ticket_resolved",
     "notify_on_ticket_unresolved", "notify_on_am_action",
     "notify_on_noc_ticket_modification"}

\* request inputs enumerated by Next
ActorInputs == {"n1", "n2", "a1", "a2"}                 \* callers of the ticket routes
AdminInputs == {"ad", "n1"}                             \* callers of update_department
CustomerInputs == ClientIds \cup {"e0"}                \* "e0": no such client
\* request bodies <<status, assigned_to>> of create_*_ticket
CreateInputs ==
    {<<"Unassigned", None>>, <<"Assigned", None>>, <<"Assigned", Empty>>,
     <<"Assigned", "n2">>}
\* statuses sent alone by update_*_ticket requests (None: field absent)
UpdateStatusInputs ==
    {None, "Unassigned", "Assigned", "Awaiting Vendor", "Resolved"}

\* request bodies <<status, assigned_to>> of update_*_ticket (None: field absent)
UpdateInputs ==
    {<<s, None>> : s \in UpdateStatusInputs}
       \cup {<<"Assigned", "n1">>, <<"Assigned", "n2">>, <<"Assigned", Empty>>,
             <<None, "n1">>, <<None, Empty>>}
TicketIdInputs == 1 .. (MaxTickets + 1)                 \* the last id never exists
\* preference flags set to false, <<those of "a2", those of "n2">>
PrefOffInputs ==
    {<<{"notify_on_ticket_created", "notify_on_ticket_assigned"}, PrefKeys>>}

\* ------------------------------------------------------------- the state
VARIABLES
    departments,      \* db.departments: id -> capability record
    users,            \* db.users: id -> user document
    clients,          \* db.clients: id -> enterprise document
    tickets,          \* db.sms_tickets and db.voice_tickets: sequence, id = index
    notifications,    \* db.ticket_notifications in insertion order, id = index
    audit_logs,       \* db.audit_logs in insertion order
    now,              \* datetime.now(): ticks at every successful mutation
    deptEdits,        \* department edits made so far
    last,             \* the request handled last and its HTTP outcome
    active_connections,   \* manager.active_connections: user id -> websockets
    connection_users,     \* manager.connection_users: websocket -> user id
    client_state,         \* websocket.client_state of every websocket
    delivered,            \* payloads sent with send_json: <<websocket, payload>>
    pending,              \* update requests between their read and their write
    handler,              \* position of the endpoint coroutine of every websocket
    sending               \* the broadcast in progress and its send loop

\* request handlers that may be in flight at once
Tasks == {"t1", "t2"}

NoTask == [busy |-> FALSE]

\* no broadcast has been started
NoSend ==
    [state |-> "idle", count |-> 0, targets |-> << >>, user |-> None,
     started |-> {}, detached |-> FALSE, visited |-> {}, attempted |-> {},
     disconnected |-> {}, at |-> None]

\* the state of the ConnectionManager and of the websockets
conn_vars == <<active_connections, connection_users, client_state, delivered>>

\* the coroutines suspended at an await
task_vars == <<pending, handler, sending>>

vars ==
    <<departments, users, clients, tickets, notifications, audit_logs, now,
      deptEdits, last, active_connections, connection_users, client_state,
      delivered, pending, handler, sending>>

\* ---------------------------------------------------------- departments
Dept(type, editUsers, createTickets, editEnterprises, editTickets, name) ==
    [exists |-> TRUE, name |-> name, department_type |-> type,
     can_edit_users |-> editUsers, can_create_tickets |-> createTickets,
     can_edit_enterprises |-> editEnterprises,
     can_edit_tickets |-> editTickets]

\* the value of `dept` when no department document is found (Python None)
NoDept ==
    [exists |-> FALSE, name |-> None, department_type |-> None,
     can_edit_users |-> FALSE, can_create_tickets |-> FALSE,
     can_edit_enterprises |-> FALSE, can_edit_tickets |-> FALSE]

init_default_departments ==
    [d \in DeptIds |->
        CASE d = "dept_admin" -> Dept("all", TRUE, TRUE, TRUE, TRUE, "Admin")
          [] d = "dept_sms_sales" ->
                Dept("sms", FALSE, TRUE, FALSE, FALSE, "SMS Sales")
          [] d = "dept_voice_sales" ->
                Dept("voice", FALSE, TRUE, FALSE, FALSE, "Voice Sales")
          [] d = "dept_noc" -> Dept("all", FALSE, TRUE, TRUE, TRUE, "NOC")]

\* ------------------------------------------------------ permission model
\* variant: the account-manager test precedes the administrator test
get_user_role_from_department_am_first(dept) ==
    IF ~dept.exists THEN "unknown"
    ELSE IF dept.can_create_tickets /\ ~dept.can_edit_enterprises THEN "am"
    ELSE IF dept.can_edit_users THEN "admin"
    ELSE IF dept.can_edit_tickets THEN "noc"
    ELSE "unknown"

get_user_role_from_department(dept) ==
    IF ~dept.exists THEN "unknown"
    ELSE IF dept.can_edit_users THEN "admin"
    ELSE IF dept.can_create_tickets /\ ~dept.can_edit_enterprises THEN "am"
    ELSE IF dept.can_edit_tickets THEN "noc"
    ELSE "unknown"

get_user_ticket_type(dept) ==
    IF ~dept.exists THEN "all" ELSE dept.department_type

\* the user document with department and role attached
get_current_user(u) ==
    LET user == users[u]
        dept == IF user.department_id # None
                   /\ user.department_id \in DOMAIN departments
                THEN departments[user.department_id] ELSE NoDept
    IN  [id |-> u, am_type |-> user.am_type, department |-> dept,
         department_id |-> user.department_id,
         role |-> IF dept.exists
                  THEN (IF dept.can_edit_users THEN "admin"
                        ELSE IF dept.can_create_tickets
                                /\ ~dept.can_edit_enterprises THEN "am"
                        ELSE IF dept.can_edit_tickets THEN "noc"
                        ELSE "unknown")
                  ELSE user.role]

get_user_department(current_user) ==
    IF current_user.department.exists THEN current_user.department
    ELSE IF current_user.department_id # None
            /\ current_user.department_id \in DOMAIN departments
    THEN departments[current_user.department_id]
    ELSE NoDept

\* variant: only a null assignee is refused, an empty string passes
validate_ticket_status_null_only(status, assigned_to) ==
    ~(status = "Assigned" /\ assigned_to = None)

\* TRUE when the status/assignee pair is accepted (no HTTP 400)
validate_ticket_status(status, assigned_to) ==
    ~(status = "Assigned" /\ Falsy(assigned_to))

\* --------------------------------------------------------- notifications
Notification(to, event_type, tid, ticket_type, by) ==
    [assigned_to |-> to, event_type |-> event_type, ticket_id |-> tid,
     ticket_type |-> ticket_type, modified_by |-> by, read |-> FALSE]

\* am_user.get(key, True)
PrefEnabled(user, key) == key \notin user.off

preference_map ==
    [created |-> "notify_on_ticket_created",
     assigned |-> "notify_on_ticket_assigned",
     awaiting_vendor |-> "notify_on_ticket_awaiting_vendor",
     awaiting_client |-> "notify_on_ticket_awaiting_client",
     awaiting_am |-> "notify_on_ticket_awaiting_am",
     resolved |-> "notify_on_ticket_resolved",
     unresolved |-> "notify_on_ticket_unresolved"]

\* the documents inserted by one call, in insertion order
create_ticket_modification_notification(tid, ticket_type, assigned_to, modified_by) ==
    << Notification(assigned_to, "ticket_modification", tid, ticket_type,
                    modified_by) >>

notify_ams_about_ticket(ticket, tid, event_type, ticket_type, created_by) ==
    LET customer_id == ticket.customer_id IN
    IF Falsy(customer_id) THEN << >>
    ELSE IF customer_id \notin DOMAIN clients
            \/ Falsy(clients[customer_id].assigned_am_id) THEN << >>
    ELSE LET am_id == clients[customer_id].assigned_am_id IN
         IF ~Falsy(created_by) /\ am_id = created_by THEN << >>
         ELSE IF am_id \notin DOMAIN users THEN << >>
         ELSE LET am_user == users[am_id] IN
              IF ~Falsy(am_user.am_type) /\ am_user.am_type # ticket_type
              THEN << >>
              ELSE IF event_type \notin DOMAIN preference_map THEN << >>
              ELSE IF ~PrefEnabled(am_user, preference_map[event_type])
              THEN << >>
              ELSE << Notification(am_id, event_type, tid, ticket_type, None) >>

NocRosterLimit == 100                         \* .to_list(100)

FirstN(seq, n) == IF Len(seq) <= n THEN seq ELSE SubSeq(seq, 1, n)

\* variant: the roster is read from the stored role instead of the department
noc_users_by_role ==
    FirstN(SelectSeq(UserOrder, LAMBDA u : users[u].role = "noc"),
           NocRosterLimit)

\* db.users.find({"department_id": <id of the department named NOC>})
noc_users ==
    LET nocs == {d \in DOMAIN departments : departments[d].name = "NOC"} IN
    IF nocs = {} THEN << >>
    ELSE LET noc_dept_id == CHOOSE d \in nocs : TRUE IN
         FirstN(SelectSeq(UserOrder,
                          LAMBDA u : users[u].department_id = noc_dept_id),
                NocRosterLimit)

RECURSIVE FanOut(_, _, _, _, _, _)
FanOut(members, prefKey, skip, event_type, tid, ticket_type) ==
    IF members = << >> THEN << >>
    ELSE LET noc_id == Head(members)
             rest == FanOut(Tail(members), prefKey, skip, event_type, tid,
                            ticket_type)
         IN  IF ~PrefEnabled(users[noc_id], prefKey) THEN rest
             ELSE IF skip.exclude /\ skip.user = noc_id THEN rest
             ELSE << Notification(noc_id, event_type, tid, ticket_type,
                                  skip.user) >> \o rest

notify_noc_about_am_action(tid, action_created_by, ticket_type) ==
    FanOut(noc_users, "notify_on_am_action",
           [exclude |-> FALSE, user |-> action_created_by],
           "am_action", tid, ticket_type)

notify_noc_about_noc_modification(tid, modified_by_user, ticket_type) ==
    FanOut(noc_users, "notify_on_noc_ticket_modification",
           [exclude |-> TRUE, user |-> modified_by_user],
           "noc_modification", tid, ticket_type)

create_audit_log(user_id, action, entity_type, entity_id) ==
    << [action |-> action, entity_type |-> entity_type,
        entity_id |-> entity_id] >>

\* --------------------------------------------------- downstream writes
\* After the ticket itself is written a handler awaits, in this order, the
\* insert of its audit record and the inserts of its notifications.  None of
\* them is inside a try block: when the insert number `fault` raises, the
\* earlier ones are persisted, the later ones never run and the exception
\* leaves the handler (HTTP 500).  fault = 0: no insert raises.
Interrupted(fault, audit, notes) ==
    fault >= 1 /\ fault <= Len(audit) + Len(notes)

AuditDone(fault, audit, notes) ==
    IF Interrupted(fault, audit, notes) /\ fault <= Len(audit)
    THEN SubSeq(audit, 1, fault - 1) ELSE audit

NotesDone(fault, audit, notes) ==
    IF ~Interrupted(fault, audit, notes) THEN notes
    ELSE IF fault <= Len(audit) THEN << >>
    ELSE SubSeq(notes, 1, fault - Len(audit) - 1)

Answered(req, fault, audit, notes) ==
    IF Interrupted(fault, audit, notes)
    THEN [req EXCEPT !.outcome = "error", !.fault = fault]
    ELSE [req EXCEPT !.outcome = "ok"]

\* ------------------------------------------------------------- requests
\* role, scope: the role and ticket type the handler resolved, where it reports them
\* fault: the downstream write of the handler that raised (0: none did)
Request(op, kind, actor, tid, customer_id, status, assigned_to, outcome, result) ==
    [op |-> op, kind |-> kind, actor |-> actor, tid |-> tid,
     customer_id |-> customer_id, status |-> status,
     assigned_to |-> assigned_to, outcome |-> outcome, result |-> result,
     role |-> None, scope |-> None, fault |-> 0]

\* the handler returns (or raises an HTTPException) without writing; a rejected
\* request is recorded with the fields its outcome was decided on: the caller
\* for 403, the id looked up for 404, the status and assignee for 400
Recorded(req) ==
    IF req.outcome = "forbidden"
    THEN [req EXCEPT !.tid = 0, !.customer_id = None, !.status = None,
                     !.assigned_to = None]
    ELSE IF req.outcome = "not_found"
    THEN [req EXCEPT !.actor = None, !.status = None, !.assigned_to = None]
    ELSE IF req.outcome = "validation"
    THEN [req EXCEPT !.actor = None, !.customer_id = None]
    ELSE req

Respond(req) ==
    /\ last' = Recorded(req)
    /\ UNCHANGED <<departments, users, clients, tickets, notifications,
                   audit_logs, now, deptEdits>>
    /\ UNCHANGED conn_vars
    /\ UNCHANGED task_vars

\* db.<kind>_tickets.find_one({"id": tid})
Found(kind, tid) == tid \in DOMAIN tickets /\ tickets[tid].kind = kind

\* the accounts of scripts/init_admin.py after migrate_users_to_departments,
\* and "a1", an account manager registered with a department only
InitUsers(off) ==
    [u \in Users |->
       CASE u = "ad" -> [department_id |-> "dept_admin", role |-> "admin",
                         am_type |-> None, off |-> {}]
         [] u = "n1" -> [department_id |-> "dept_noc", role |-> "noc",
                         am_type |-> None, off |-> {}]
         [] u = "n2" -> [department_id |-> "dept_noc", role |-> "noc",
                         am_type |-> None, off |-> off[2]]
         [] u = "a1" -> [department_id |-> "dept_sms_sales", role |-> None,
                         am_type |-> None, off |-> {}]
         [] u = "a2" -> [department_id |-> "dept_voice_sales", role |-> "am",
                         am_type |-> "voice", off |-> off[1]]]

InitClients ==
    [c \in ClientIds |->
       CASE c = "e1" -> [assigned_am_id |-> "a1"]
         [] c = "e2" -> [assigned_am_id |-> "a2"]
         [] c = "e3" -> [assigned_am_id |-> None]]

InitEmpty ==
    /\ clients = InitClients
    /\ tickets = << >>
    /\ notifications = << >>
    /\ audit_logs = << >>
    /\ now = 1
    /\ deptEdits = 0
    /\ last = Request("init", None, None, 0, None, None, None, "ok", {})
    /\ active_connections = [u \in {} |-> {}]
    /\ connection_users = [w \in {} |-> None]
    /\ client_state = [w \in Websockets |-> "CONNECTING"]
    /\ delivered = {}
    /\ pending = [t \in Tasks |-> NoTask]
    /\ handler = [w \in Websockets |-> "new"]
    /\ sending = NoSend

Init ==
    /\ departments = init_default_departments
    /\ \E off \in PrefOffInputs : users = InitUsers(off)
    /\ InitEmpty

\* ------------------------------------------------------- ticket creation
TicketEntity(kind) == IF kind = "sms" THEN "ticket_sms" ELSE "ticket_voice"

\* the part of create_sms_ticket / create_voice_ticket after the checks
insert_ticket_run(kind, req, current_user, fault) ==
    LET ticket_id == Len(tickets) + 1
        doc == [kind |-> kind, status |-> req.status,
                assigned_to |-> req.assigned_to, assigned_at |-> NoTime,
                updated_at |-> now, customer_id |-> req.customer_id,
                actions |-> << >>]
        created == notify_ams_about_ticket(doc, ticket_id, "created", kind,
                                           current_user.id)
        assigned == IF ~Falsy(doc.assigned_to)
                    THEN notify_ams_about_ticket(doc, ticket_id, "assigned",
                                                 kind, current_user.id)
                    ELSE << >>
        audit == create_audit_log(current_user.id, "create",
                                  TicketEntity(kind), ticket_id)
        notes == created \o assigned
    IN  /\ tickets' = Append(tickets, doc)
        /\ audit_logs' = audit_logs \o AuditDone(fault, audit, notes)
        /\ notifications' = notifications \o NotesDone(fault, audit, notes)
        /\ now' = now + 1
        /\ last' = Answered([req EXCEPT !.tid = ticket_id], fault, audit, notes)
        /\ UNCHANGED <<departments, users, clients, deptEdits>>
        /\ UNCHANGED conn_vars
        /\ UNCHANGED task_vars

insert_ticket(kind, req, current_user) ==
    insert_ticket_run(kind, req, current_user, 0)

create_sms_ticket_run(actor, customer_id, status, assigned_to, fault) ==
    LET current_user == get_current_user(actor)
        dept == get_user_department(current_user)
        ticket_type == get_user_ticket_type(dept)
        req == Request("create", "sms", actor, 0, customer_id, status,
                       assigned_to, "ok", {})
    IN  IF ticket_type # "all" /\ ticket_type # "sms"
        THEN Respond([req EXCEPT !.outcome = "forbidden"])
        ELSE IF ~dept.exists \/ ~dept.can_create_tickets
        THEN Respond([req EXCEPT !.outcome = "forbidden"])
        ELSE IF ~validate_ticket_status(status, assigned_to)
        THEN Respond([req EXCEPT !.outcome = "validation"])
        ELSE IF customer_id \notin DOMAIN clients
        THEN Respond([req EXCEPT !.outcome = "not_found"])
        ELSE insert_ticket_run("sms", req, current_user, fault)

create_sms_ticket(actor, customer_id, status, assigned_to) ==
    create_sms_ticket_run(actor, customer_id, status, assigned_to, 0)

\* variant: the audit record is written before the client is looked up
create_voice_ticket_audit_first(actor, customer_id, status, assigned_to) ==
    LET current_user == get_current_user(actor)
        req == Request("create", "voice", actor, 0, customer_id, status,
                       assigned_to, "ok", {})
    IN  IF current_user.role = "am"
        THEN Respond([req EXCEPT !.outcome = "forbidden"])
        ELSE IF ~validate_ticket_status(status, assigned_to)
        THEN Respond([req EXCEPT !.outcome = "validation"])
        ELSE IF customer_id \notin DOMAIN clients
        THEN /\ audit_logs' = audit_logs \o
                   create_audit_log(actor, "create", TicketEntity("voice"), 0)
             /\ last' = Recorded([req EXCEPT !.outcome = "not_found"])
             /\ UNCHANGED <<departments, users, clients, tickets,
                            notifications, now, deptEdits>>
             /\ UNCHANGED conn_vars
             /\ UNCHANGED task_vars
        ELSE insert_ticket("voice", req, current_user)

create_voice_ticket(actor, customer_id, status, assigned_to) ==
    LET current_user == get_current_user(actor)
        req == Request("create", "voice", actor, 0, customer_id, status,
                       assigned_to, "ok", {})
    IN  IF current_user.role = "am"
        THEN Respond([req EXCEPT !.outcome = "forbidden"])
        ELSE IF ~validate_ticket_status(status, assigned_to)
        THEN Respond([req EXCEPT !.outcome = "validation"])
        ELSE IF customer_id \notin DOMAIN clients
        THEN Respond([req EXCEPT !.outcome = "not_found"])
        ELSE insert_ticket("voice", req, current_user)

\* ---------------------------------------------------------- ticket reads
\* ids of the clients whose assigned_am_id is the caller
clients_of(user_id) == {c \in DOMAIN clients : clients[c].assigned_am_id = user_id}

get_sms_tickets(actor) ==
    LET current_user == get_current_user(actor)
        dept == get_user_department(current_user)
        ticket_type == get_user_ticket_type(dept)
        role == get_user_role_from_department(dept)
        req == Request("list", "sms", actor, 0, None, None, None, "ok", {})
        found == {t \in DOMAIN tickets :
                    /\ tickets[t].kind = "sms"
                    /\ role = "am" => tickets[t].customer_id \in clients_of(actor)}
    IN  IF ticket_type # "all" /\ ticket_type # "sms"
        THEN Respond([req EXCEPT !.outcome = "forbidden"])
        ELSE Respond([req EXCEPT !.result = found])

get_voice_tickets(actor) ==
    LET current_user == get_current_user(actor)
        req == Request("list", "voice", actor, 0, None, None, None, "ok", {})
        found == {t \in DOMAIN tickets :
                    /\ tickets[t].kind = "voice"
                    /\ current_user.role = "am"
                          => tickets[t].customer_id \in clients_of(actor)}
    IN  IF current_user.role = "am" /\ current_user.am_type # "voice"
        THEN Respond([req EXCEPT !.outcome = "forbidden"])
        ELSE Respond([req EXCEPT !.result = found])

get_sms_ticket(actor, ticket_id) ==
    LET current_user == get_current_user(actor)
        dept == get_user_department(current_user)
        ticket_type == get_user_ticket_type(dept)
        req == Request("get", "sms", actor, ticket_id, None, None, None, "ok", {})
    IN  IF ticket_type # "all" /\ ticket_type # "sms"
        THEN Respond([req EXCEPT !.outcome = "forbidden"])
        ELSE IF ~Found("sms", ticket_id)
        THEN Respond([req EXCEPT !.outcome = "not_found"])
        ELSE Respond([req EXCEPT !.result = {ticket_id}])

get_voice_ticket(actor, ticket_id) ==
    LET req == Request("get", "voice", actor, ticket_id, None, None, None,
                       "ok", {})
    IN  IF ~Found("voice", ticket_id)
        THEN Respond([req EXCEPT !.outcome = "not_found"])
        ELSE Respond([req EXCEPT !.result = {ticket_id}])

\* --------------------------------------------------------- ticket update
\* variant: the stamp does not look at the previous assignee
sets_assigned_at_any_assignee(existing_ticket, new_status, new_assigned_to) ==
    /\ ~Falsy(new_assigned_to)
    /\ new_status = "Assigned"

\* lines 4042-4046: the update stamps assigned_at
sets_assigned_at(existing_ticket, new_status, new_assigned_to) ==
    /\ ~Falsy(new_assigned_to)
    /\ new_status = "Assigned"
    /\ \/ Falsy(existing_ticket.assigned_to)
       \/ existing_ticket.assigned_to # new_assigned_to

\* variant: the assignee is notified of their own update too
should_notify_any_actor(existing_ticket, current_user_id) ==
    /\ ~Falsy(existing_ticket.assigned_to)
    /\ existing_ticket.status = "Assigned"

\* lines 4055-4063: the peer-assignee notice is due
should_notify(existing_ticket, current_user_id) ==
    /\ ~Falsy(existing_ticket.assigned_to)
    /\ existing_ticket.status = "Assigned"
    /\ existing_ticket.assigned_to # current_user_id

\* lines 4122-4135: notification type of a new status (None: no notification)
notification_type(new_status) ==
    IF new_status = "Assigned" THEN "assigned"
    ELSE IF new_status = "Awaiting Vendor" THEN "awaiting_vendor"
    ELSE IF new_status = "Awaiting Client" THEN "awaiting_client"
    ELSE IF new_status = "Awaiting AM" THEN "awaiting_am"
    ELSE IF new_status = "Resolved" THEN "resolved"
    ELSE IF new_status = "Unresolved" THEN "unresolved"
    ELSE None

\* lines 4066-4069: the keys of update_dict whose value differs from the stored one
changes_of(existing_ticket, req, stamp, at) ==
    {k \in {"status", "assigned_to", "assigned_at", "updated_at"} :
        \/ k = "status" /\ req.status # None
                        /\ existing_ticket.status # req.status
        \/ k = "assigned_to" /\ req.assigned_to # None
                             /\ existing_ticket.assigned_to # req.assigned_to
        \/ k = "assigned_at" /\ stamp /\ existing_ticket.assigned_at # at
        \/ k = "updated_at" /\ existing_ticket.updated_at # at}

\* the part of update_sms_ticket / update_voice_ticket after the lookup of
\* `existing_ticket`, which was read when the clock showed `at`: update_dict is
\* validated against that document and then written with $set on the stored one
apply_update_from(kind, req, current_user, existing_ticket, at, fault) ==
    LET ticket_id == req.tid
        new_status == IF req.status # None THEN req.status
                      ELSE existing_ticket.status
        new_assigned_to == IF req.assigned_to # None THEN req.assigned_to
                           ELSE existing_ticket.assigned_to
        stamp == sets_assigned_at(existing_ticket, new_status, new_assigned_to)
        notify == should_notify(existing_ticket, current_user.id)
        changes == changes_of(existing_ticket, req, stamp, at)
        dept == get_user_department(current_user)
        modifier_role == IF dept.exists
                         THEN get_user_role_from_department(dept) ELSE None
        is_noc_modifier == modifier_role = "noc"
        result == [tickets[ticket_id] EXCEPT
                      !.status = IF req.status # None THEN req.status ELSE @,
                      !.assigned_to = IF req.assigned_to # None
                                      THEN req.assigned_to ELSE @,
                      !.assigned_at = IF stamp THEN at ELSE @,
                      !.updated_at = at]
        audit == IF changes # {}
                 THEN create_audit_log(current_user.id, "update",
                                       TicketEntity(kind), ticket_id)
                 ELSE << >>
        peer == IF notify
                THEN create_ticket_modification_notification(
                        ticket_id, kind, existing_ticket.assigned_to,
                        current_user.id)
                ELSE << >>
        noc == IF notify /\ is_noc_modifier /\ changes # {}
               THEN notify_noc_about_noc_modification(ticket_id,
                                                      current_user.id, kind)
               ELSE << >>
        am == IF ~Falsy(new_status) /\ new_status # existing_ticket.status
                 /\ notification_type(new_status) # None
              THEN notify_ams_about_ticket(result, ticket_id,
                                           notification_type(new_status),
                                           kind, current_user.id)
              ELSE << >>
        notes == peer \o noc \o am
    IN  IF ~validate_ticket_status(new_status, new_assigned_to)
        THEN Respond([req EXCEPT !.outcome = "validation"])
        ELSE /\ tickets' = [tickets EXCEPT ![ticket_id] = result]
             /\ audit_logs' = audit_logs \o AuditDone(fault, audit, notes)
             /\ notifications' =
                   notifications \o NotesDone(fault, audit, notes)
             /\ now' = now + 1
             /\ last' = Answered(req, fault, audit, notes)
             /\ UNCHANGED <<departments, users, clients, deptEdits>>
             /\ UNCHANGED conn_vars

\* the lookup and the write with no other request in between
apply_update_run(kind, req, current_user, fault) ==
    /\ apply_update_from(kind, req, current_user, tickets[req.tid], now, fault)
    /\ UNCHANGED task_vars

\* update_sms_ticket up to its write: the permission checks, the lookup of the
\* ticket and the validation; the handler is then suspended at the await of
\* find_one_and_update
update_sms_ticket_read(task, actor, ticket_id, status, assigned_to) ==
    LET current_user == get_current_user(actor)
        dept == get_user_department(current_user)
        ticket_type == get_user_ticket_type(dept)
        req == Request("update_read", "sms", actor, ticket_id, None, status,
                       assigned_to, "ok", {})
        existing_ticket == tickets[ticket_id]
        new_status == IF status # None THEN status ELSE existing_ticket.status
        new_assigned_to == IF assigned_to # None THEN assigned_to
                           ELSE existing_ticket.assigned_to
    IN  /\ ~pending[task].busy
        /\ IF ticket_type # "all" /\ ticket_type # "sms"
           THEN Respond([req EXCEPT !.outcome = "forbidden"])
           ELSE IF ~dept.exists \/ ~dept.can_edit_tickets
           THEN Respond([req EXCEPT !.outcome = "forbidden"])
           ELSE IF ~Found("sms", ticket_id)
           THEN Respond([req EXCEPT !.outcome = "not_found"])
           ELSE IF ~validate_ticket_status(new_status, new_assigned_to)
           THEN Respond([req EXCEPT !.outcome = "validation"])
           ELSE /\ pending' =
                     [pending EXCEPT ![task] =
                         [busy |-> TRUE, req |-> [req EXCEPT !.op = "update"],
                          current_user |-> current_user,
                          existing_ticket |-> existing_ticket, at |-> now]]
                /\ last' = req
                /\ UNCHANGED <<departments, users, clients, tickets,
                               notifications, audit_logs, now, deptEdits>>
                /\ UNCHANGED conn_vars
                /\ UNCHANGED <<handler, sending>>

\* update_sms_ticket from its write on, for the handler suspended as `task`
update_sms_ticket_write(task) ==
    /\ pending[task].busy
    /\ apply_update_from("sms", pending[task].req, pending[task].current_user,
                         pending[task].existing_ticket, pending[task].at, 0)
    /\ pending' = [pending EXCEPT ![task] = NoTask]
    /\ UNCHANGED <<handler, sending>>

apply_update(kind, req, current_user) ==
    apply_update_run(kind, req, current_user, 0)

update_sms_ticket_run(actor, ticket_id, status, assigned_to, fault) ==
    LET current_user == get_current_user(actor)
        dept == get_user_department(current_user)
        ticket_type == get_user_ticket_type(dept)
        req == Request("update", "sms", actor, ticket_id, None, status,
                       assigned_to, "ok", {})
    IN  IF ticket_type # "all" /\ ticket_type # "sms"
        THEN Respond([req EXCEPT !.outcome = "forbidden"])
        ELSE IF ~dept.exists \/ ~dept.can_edit_tickets
        THEN Respond([req EXCEPT !.outcome = "forbidden"])
        ELSE IF ~Found("sms", ticket_id)
        THEN Respond([req EXCEPT !.outcome = "not_found"])
        ELSE apply_update_run("sms", req, current_user, fault)

update_sms_ticket(actor, ticket_id, status, assigned_to) ==
    update_sms_ticket_run(actor, ticket_id, status, assigned_to, 0)

update_voice_ticket(actor, ticket_id, status, assigned_to) ==
    LET current_user == get_current_user(actor)
        dept == get_user_department(current_user)
        user_role == IF dept.exists THEN get_user_role_from_department(dept)
                     ELSE "unknown"
        req == Request("update", "voice", actor, ticket_id, None, status,
                       assigned_to, "ok", {})
    IN  IF user_role = "am"
        THEN Respond([req EXCEPT !.outcome = "forbidden"])
        ELSE IF ~Found("voice", ticket_id)
        THEN Respond([req EXCEPT !.outcome = "not_found"])
        ELSE apply_update("voice", req, current_user)

\* --------------------------------------------------------- ticket actions
ActionEntity(kind) ==
    IF kind = "sms" THEN "ticket_sms_action" ELSE "ticket_voice_action"

\* add_sms_ticket_action and add_voice_ticket_action differ only in the collection
\* variant: the role stored in the user document decides
action_user_role_stored(actor) == users[actor].role

\* the role add_*_ticket_action resolves from the user document it re-reads
action_user_role(actor) ==
    LET user == users[actor]
        raw == [id |-> actor, am_type |-> user.am_type, department |-> NoDept,
                department_id |-> user.department_id, role |-> user.role]
        user_dept == get_user_department(raw)
    IN  IF user_dept.exists
        THEN get_user_role_from_department(user_dept) ELSE None

add_ticket_action_run(kind, actor, ticket_id, fault) ==
    LET user_role == action_user_role(actor)
        req == Request("add_action", kind, actor, ticket_id, None, None, None,
                       "ok", {})
        fanout == IF user_role = "am"
                  THEN notify_noc_about_am_action(ticket_id, actor, kind)
                  ELSE << >>
        audit == create_audit_log(actor, "create", ActionEntity(kind),
                                  ticket_id)
    IN  IF ~Found(kind, ticket_id)
        THEN Respond([req EXCEPT !.outcome = "not_found"])
        ELSE /\ tickets' = [tickets EXCEPT
                              ![ticket_id].actions = Append(@, actor),
                              ![ticket_id].updated_at = now]
             /\ audit_logs' = audit_logs \o AuditDone(fault, audit, fanout)
             /\ notifications' =
                   notifications \o NotesDone(fault, audit, fanout)
             /\ now' = now + 1
             /\ last' = Answered(req, fault, audit, fanout)
             /\ UNCHANGED <<departments, users, clients, deptEdits>>
             /\ UNCHANGED conn_vars
             /\ UNCHANGED task_vars

add_ticket_action(kind, actor, ticket_id) ==
    add_ticket_action_run(kind, actor, ticket_id, 0)

add_sms_ticket_action(actor, ticket_id) == add_ticket_action("sms", actor, ticket_id)

add_voice_ticket_action(actor, ticket_id) == add_ticket_action("voice", actor, ticket_id)

\* ------------------------------------------------------------ departments
DeptFlags ==
    {"can_edit_users", "can_create_tickets", "can_edit_enterprises",
     "can_edit_tickets"}

\* requests <<dept_id, field, value>> of update_department enumerated by Next
DeptEditInputs ==
    {<<"dept_sms_sales", "can_edit_tickets", TRUE>>,
     <<"dept_noc", "can_edit_enterprises", FALSE>>}

get_current_admin(actor) ==
    get_user_role_from_department(get_user_department(get_current_user(actor)))
        = "admin"

update_department(actor, dept_id, field, value) ==
    LET req == Request("update_department", None, actor, 0, None, None, None,
                       "ok", {})
    IN  IF ~get_current_admin(actor)
        THEN Respond([req EXCEPT !.outcome = "forbidden"])
        ELSE IF dept_id \notin DOMAIN departments
        THEN Respond([req EXCEPT !.outcome = "not_found"])
        ELSE /\ departments' =
                  [departments EXCEPT ![dept_id] =
                      [f \in DOMAIN @ |->
                          IF f = field THEN value ELSE @[f]]]
             /\ audit_logs' = audit_logs \o
                   create_audit_log(actor, "update", "department", 0)
             /\ deptEdits' = deptEdits + 1
             /\ last' = req
             /\ UNCHANGED <<users, clients, tickets, notifications, now>>
             /\ UNCHANGED conn_vars
             /\ UNCHANGED task_vars

\* ------------------------------------------------------------------ users
\* PUT /users/{user_id} with a department_id in the body
update_user(actor, user_id, department_id) ==
    LET req == Request("update_user", None, actor, 0, None, None, None,
                       "ok", {})
    IN  IF ~get_current_admin(actor)
        THEN Respond([req EXCEPT !.outcome = "forbidden"])
        ELSE IF user_id \notin DOMAIN users
        THEN Respond([req EXCEPT !.outcome = "not_found"])
        ELSE /\ users' = [users EXCEPT ![user_id].department_id = department_id]
             /\ audit_logs' = audit_logs \o
                   create_audit_log(actor, "update", "user", 0)
             /\ last' = req
             /\ UNCHANGED <<departments, clients, tickets, notifications, now,
                            deptEdits>>
             /\ UNCHANGED conn_vars
             /\ UNCHANGED task_vars

\* ------------------------------------------------- notification listing
NotificationLimit == 20

am_event_types ==
    {"created", "assigned", "awaiting_vendor", "awaiting_client",
     "awaiting_am", "resolved", "unresolved"}

noc_event_types == {"am_action", "noc_modification", "ticket_modification"}

\* query = {"assigned_to": current_user_id}
addressed_to_anyone(actor, doc) == TRUE

addressed_to(actor, doc) == doc.assigned_to = actor

get_ticket_modification_notifications(actor) ==
    LET current_user == get_current_user(actor)
        user_dept == get_user_department(current_user)
        user_role == IF user_dept.exists
                     THEN get_user_role_from_department(user_dept)
                     ELSE "unknown"
        user_ticket_type == IF user_dept.exists
                            THEN get_user_ticket_type(user_dept) ELSE "all"
        matches ==
            {i \in 1 .. Len(notifications) :
                /\ addressed_to(actor, notifications[i])
                /\ IF user_role = "am"
                   THEN /\ notifications[i].event_type \in am_event_types
                        /\ user_ticket_type # "all"
                              => notifications[i].ticket_type = user_ticket_type
                   ELSE IF user_role \in {"noc", "admin"}
                   THEN notifications[i].event_type \in noc_event_types
                   ELSE FALSE}
        newest == {i \in matches :
                     Cardinality({j \in matches : j > i}) < NotificationLimit}
        req == Request("list_notifications", None, actor, 0, None, None, None,
                       "ok", newest)
    IN  Respond([req EXCEPT !.role = user_role, !.scope = user_ticket_type])

\* PUT /tickets/notifications/{notification_id}/read; a notification is
\* identified by its position in the collection
mark_notification_as_read_any_owner(actor, notification_id) == TRUE

mark_notification_as_read_filter(actor, notification_id) ==
    notifications[notification_id].assigned_to = actor

\* {"$set": {"read": True}}
read_after_mark_toggled(doc) == ~doc.read

read_after_mark(doc) == TRUE

\* find_one_and_update answers with the document as it was before the update:
\* the result of the request holds the id when that document was read already
mark_notification_as_read(actor, notification_id) ==
    LET req == Request("mark_read", None, actor, notification_id, None, None,
                       None, "ok", {})
    IN  /\ IF /\ notification_id \in DOMAIN notifications
              /\ mark_notification_as_read_filter(actor, notification_id)
           THEN /\ notifications' =
                     [notifications EXCEPT ![notification_id].read =
                         read_after_mark(notifications[notification_id])]
                /\ last' = [req EXCEPT !.result =
                               IF notifications[notification_id].read
                               THEN {notification_id} ELSE {}]
           ELSE /\ last' = [req EXCEPT !.outcome = "not_found"]
                /\ UNCHANGED notifications
        /\ UNCHANGED <<departments, users, clients, tickets, audit_logs, now,
                       deptEdits>>
        /\ UNCHANGED conn_vars
        /\ UNCHANGED task_vars

\* --------------------------------------------------- connection manager
\* variant: the entry of a user is kept when its last socket goes
disconnect_keep_empty(conns) ==
    /\ connection_users' =
         [w \in DOMAIN connection_users \ conns |-> connection_users[w]]
    /\ active_connections' =
         [u \in DOMAIN active_connections |-> active_connections[u] \ conns]

\* ConnectionManager.disconnect for each of the sockets `conns`
disconnect(conns) ==
    LET left == [u \in DOMAIN active_connections |->
                    active_connections[u] \ conns]
    IN  /\ connection_users' =
             [w \in DOMAIN connection_users \ conns |-> connection_users[w]]
        /\ active_connections' =
             [u \in {v \in DOMAIN left : left[v] # {}} |-> left[u]]

Connections(user_ids) ==
    UNION {active_connections[u] : u \in user_ids \cap DOMAIN active_connections}

\* ConnectionManager.send_personal_message to each of `user_ids`: the message
\* goes to their connected sockets, the others are dropped from the manager
send_personal_message(message, user_ids) ==
    LET live == {c \in Connections(user_ids) : client_state[c] = "CONNECTED"}
    IN  /\ delivered' = delivered \cup {<<c, message>> : c \in live}
        /\ disconnect(Connections(user_ids) \ live)

WebsocketEvent(op, actor) ==
    /\ last' = Request(op, None, actor, 0, None, None, None, "ok", {})
    /\ UNCHANGED <<departments, users, clients, tickets, notifications,
                   audit_logs, now, deptEdits>>
    /\ UNCHANGED task_vars

\* /ws/data/{token}: the socket is accepted, registered and welcomed
websocket_data(websocket, user_id) ==
    /\ client_state[websocket] = "CONNECTING"
    /\ user_id \in DOMAIN users
    /\ client_state' = [client_state EXCEPT ![websocket] = "CONNECTED"]
    /\ active_connections' =
         [u \in DOMAIN active_connections \cup {user_id} |->
            IF u = user_id
            THEN Connections({u}) \cup {websocket}
            ELSE active_connections[u]]
    /\ connection_users' =
         [w \in DOMAIN connection_users \cup {websocket} |->
            IF w = websocket THEN user_id ELSE connection_users[w]]
    /\ delivered' = delivered \cup {<<websocket, "connected">>}
    /\ WebsocketEvent("ws_connect", user_id)

\* the peer of a connected socket goes away
websocket_close(websocket) ==
    /\ client_state[websocket] = "CONNECTED"
    /\ client_state' = [client_state EXCEPT ![websocket] = "DISCONNECTED"]
    /\ UNCHANGED <<active_connections, connection_users, delivered>>
    /\ WebsocketEvent("ws_close", None)

\* receive_json raises WebSocketDisconnect in the endpoint of the socket
websocket_disconnect(websocket) ==
    /\ client_state[websocket] = "DISCONNECTED"
    /\ websocket \in DOMAIN connection_users
    /\ disconnect({websocket})
    /\ UNCHANGED <<client_state, delivered>>
    /\ WebsocketEvent("ws_disconnect", None)

\* /ws/chat/{token}, message "typing" in a conversation of `participant_ids`
websocket_chat_typing(websocket, participant_ids) ==
    /\ client_state[websocket] = "CONNECTED"
    /\ websocket \in DOMAIN connection_users
    /\ connection_users[websocket] \in participant_ids
    /\ send_personal_message("typing",
                             participant_ids \ {connection_users[websocket]})
    /\ UNCHANGED client_state
    /\ WebsocketEvent("ws_typing", connection_users[websocket])

\* ------------------------------------ the coroutines of the websockets
\* The endpoints and the broadcasts are coroutines of one event loop: a step
\* below is the code between two awaits.  While a broadcast runs between awaits
\* (Running) no other coroutine is scheduled.
Running == sending.state \in {"busy", "iterating"}

\* a step of a websocket coroutine answers no HTTP request and writes none of
\* the collections of the model
WsStep ==
    UNCHANGED <<departments, users, clients, tickets, notifications,
                audit_logs, now, deptEdits, last, pending>>

\* the set object a send loop iterates: the one stored for the user when the
\* loop began; once disconnect has deleted the user's entry that object is
\* empty and no longer the one in the registry
IteratedSet ==
    IF sending.detached THEN {} ELSE Connections({sending.user})

\* disconnect(websocket) deletes the entry whose set a suspended loop iterates
Detaches(websocket) ==
    /\ sending.state = "sending"
    /\ ~sending.detached
    /\ Connections({sending.user}) = {websocket}

\* websocket_chat / websocket_data up to the await inside manager.connect: the
\* token's user is looked up, the socket accepted and registered
websocket_accept(websocket, user_id, endpoint) ==
    /\ ~Running
    /\ handler[websocket] = "new"
    /\ IF user_id \notin DOMAIN users
       THEN /\ client_state' = [client_state EXCEPT ![websocket] = "DISCONNECTED"]
            /\ handler' = [handler EXCEPT ![websocket] = "done"]
            /\ UNCHANGED <<active_connections, connection_users>>
       ELSE /\ client_state' = [client_state EXCEPT ![websocket] = "CONNECTED"]
            /\ handler' = [handler EXCEPT ![websocket] = endpoint]
            /\ active_connections' =
                 [u \in DOMAIN active_connections \cup {user_id} |->
                    IF u = user_id
                    THEN Connections({u}) \cup {websocket}
                    ELSE active_connections[u]]
            /\ connection_users' =
                 [w \in DOMAIN connection_users \cup {websocket} |->
                    IF w = websocket THEN user_id ELSE connection_users[w]]
    /\ UNCHANGED <<delivered, sending>>
    /\ WsStep

\* the update of last_active that manager.connect awaits; when it raises the
\* endpoint ends, the call being outside its try block
websocket_liveness(websocket, ok) ==
    /\ ~Running
    /\ handler[websocket] \in {"chat", "data"}
    /\ handler' = [handler EXCEPT ![websocket] =
                      IF ~ok THEN "done"
                      ELSE IF @ = "data" THEN "welcome" ELSE "running"]
    /\ UNCHANGED <<conn_vars, sending>>
    /\ WsStep

\* the welcome frame of websocket_data, sent outside the try block
websocket_welcome(websocket, ok) ==
    /\ ~Running
    /\ handler[websocket] = "welcome"
    /\ IF ok /\ client_state[websocket] = "CONNECTED"
       THEN /\ delivered' = delivered \cup {<<websocket, "connected">>}
            /\ handler' = [handler EXCEPT ![websocket] = "running"]
       ELSE /\ handler' = [handler EXCEPT ![websocket] = "done"]
            /\ UNCHANGED delivered
    /\ UNCHANGED <<active_connections, connection_users, client_state,
                   sending>>
    /\ WsStep

\* receive_json raises in the receive loop (WebSocketDisconnect or any other
\* exception): manager.disconnect(websocket), and the endpoint ends
websocket_end(websocket) ==
    /\ ~Running
    /\ handler[websocket] = "running"
    /\ disconnect({websocket})
    /\ handler' = [handler EXCEPT ![websocket] = "done"]
    /\ client_state' = [client_state EXCEPT ![websocket] = "DISCONNECTED"]
    /\ sending' = IF Detaches(websocket)
                  THEN [sending EXCEPT !.detached = TRUE] ELSE sending
    /\ UNCHANGED delivered
    /\ WsStep

\* broadcast_to_conversation(message, participant_ids) is called
broadcast_to_conversation(participant_ids, maxSends) ==
    /\ sending.state \in {"idle", "returned", "raised"}
    /\ sending.count < maxSends
    /\ sending' = [NoSend EXCEPT !.state = "busy", !.count = sending.count + 1,
                                 !.targets = participant_ids]
    /\ UNCHANGED <<conn_vars, handler>>
    /\ WsStep

\* the next `await self.send_personal_message(message, user_id)` of the
\* broadcast, up to its for statement
send_personal_message_begin ==
    /\ sending.state = "busy"
    /\ sending' =
         IF sending.targets = << >>
         THEN [sending EXCEPT !.state = "returned"]
         ELSE LET user_id == Head(sending.targets)
              IN  [sending EXCEPT
                     !.state = IF user_id \in DOMAIN active_connections
                               THEN "iterating" ELSE "busy",
                     !.targets = Tail(sending.targets),
                     !.user = user_id,
                     !.started = Connections({user_id}),
                     !.detached = FALSE, !.visited = {}, !.attempted = {},
                     !.disconnected = {}, !.at = None]
    /\ UNCHANGED <<conn_vars, handler>>
    /\ WsStep

\* the for statement asks the set iterator for the next connection: it raises
\* RuntimeError when the set has changed size, it may pass over connections
\* added since the loop began, and the connections found not connected are
\* collected without an await; the loop is suspended at the next send_json or
\* ends, and then the collected connections are disconnected
send_personal_message_next ==
    /\ sending.state = "iterating"
    /\ IF Cardinality(IteratedSet) # Cardinality(sending.started)
       THEN /\ sending' = [sending EXCEPT !.state = "raised"]
            /\ UNCHANGED conn_vars
       ELSE \E passed \in SUBSET ((IteratedSet \ sending.visited)
                                    \ sending.started) :
              LET rest == (IteratedSet \ sending.visited) \ passed
                  dead == {c \in rest : client_state[c] # "CONNECTED"}
              IN  \/ \E c \in rest \ dead, found \in SUBSET dead :
                        /\ sending' =
                             [sending EXCEPT
                                !.state = "sending", !.at = c,
                                !.visited = @ \cup passed \cup found \cup {c},
                                !.attempted = @ \cup {c},
                                !.disconnected = @ \cup found]
                        /\ UNCHANGED conn_vars
                  \/ /\ rest = dead
                     /\ sending' =
                          [sending EXCEPT
                             !.state = "busy",
                             !.visited = @ \cup passed \cup dead,
                             !.disconnected = @ \cup dead]
                     /\ disconnect(sending.disconnected \cup dead)
                     /\ UNCHANGED <<client_state, delivered>>
    /\ UNCHANGED handler
    /\ WsStep

\* the send_json the loop was suspended at returns or raises
send_personal_message_sent(ok) ==
    /\ sending.state = "sending"
    /\ IF ok /\ client_state[sending.at] = "CONNECTED"
       THEN /\ delivered' = delivered \cup {<<sending.at, "message">>}
            /\ sending' = [sending EXCEPT !.state = "iterating", !.at = None]
       ELSE /\ sending' = [sending EXCEPT !.state = "iterating", !.at = None,
                                          !.disconnected = @ \cup {sending.at}]
            /\ UNCHANGED delivered
    /\ UNCHANGED <<active_connections, connection_users, client_state,
                   handler>>
    /\ WsStep

\* the peer of a connected socket goes away while coroutines are suspended
websocket_peer_close(websocket) ==
    /\ ~Running
    /\ client_state[websocket] = "CONNECTED"
    /\ client_state' = [client_state EXCEPT ![websocket] = "DISCONNECTED"]
    /\ UNCHANGED <<active_connections, connection_users, delivered, handler,
                   sending>>
    /\ WsStep

\* ------------------------------------------------------- specification
\* A response that wrote nothing leaves every collection as it was: the runs
\* that go on after it are the runs that go on from the state before it, so a
\* run is followed up to its first such response.
Wrote(req) ==
    /\ req.outcome = "ok"
    /\ req.op \in {"init", "create", "update", "add_action", "update_department",
                  "update_user", "mark_read", "update_read", "ws_connect",
                  "ws_close",
                  "ws_disconnect", "ws_typing"}

Bounded(maxTime) ==
    /\ now' <= maxTime + 1
    /\ Len(tickets') <= MaxTickets
    /\ deptEdits' <= MaxDeptEdits

Next ==
    \/ Wrote(last) /\ \E a \in ActorInputs, c \in CustomerInputs, b \in CreateInputs :
          create_sms_ticket(a, c, b[1], b[2]) /\ Bounded(MaxTime)
    \/ Wrote(last) /\ \E a \in ActorInputs, c \in CustomerInputs, b \in CreateInputs :
          create_voice_ticket(a, c, b[1], b[2]) /\ Bounded(MaxTime)
    \/ Wrote(last) /\ \E a \in ActorInputs : get_sms_tickets(a) /\ Bounded(MaxTime)
    \/ Wrote(last) /\ \E a \in ActorInputs : get_voice_tickets(a) /\ Bounded(MaxTime)
    \/ Wrote(last) /\ \E a \in ActorInputs, i \in TicketIdInputs : get_sms_ticket(a, i) /\ Bounded(MaxTime)
    \/ Wrote(last) /\ \E a \in ActorInputs, i \in TicketIdInputs : get_voice_ticket(a, i) /\ Bounded(MaxTime)
    \/ Wrote(last) /\ \E a \in ActorInputs, i \in TicketIdInputs, b \in UpdateInputs :
          update_sms_ticket(a, i, b[1], b[2]) /\ Bounded(MaxTime)
    \/ Wrote(last) /\ \E a \in ActorInputs, i \in TicketIdInputs, b \in UpdateInputs :
          update_voice_ticket(a, i, b[1], b[2]) /\ Bounded(MaxTime)
    \/ Wrote(last) /\ \E a \in ActorInputs, i \in TicketIdInputs :
          add_sms_ticket_action(a, i) /\ Bounded(MaxTime)
    \/ Wrote(last) /\ \E a \in ActorInputs, i \in TicketIdInputs :
          add_voice_ticket_action(a, i) /\ Bounded(MaxTime)

Spec == Init /\ [][Next]_vars

\* ---------------------------------------- specification: department edits
\* an administrator edits a capability flag while members of the department
\* and of NOC create and update tickets
DeptActorInputs == {"n1", "a1"}

DeptCreateInputs == {<<"Unassigned", None>>, <<"Assigned", "n2">>}

DeptUpdateInputs == {<<"Resolved", None>>, <<"Assigned", "n1">>, <<None, Empty>>}

NextDept ==
    \/ Wrote(last) /\ \E a \in AdminInputs, e \in DeptEditInputs :
          update_department(a, e[1], e[2], e[3]) /\ Bounded(MaxTime)
    \/ Wrote(last) /\ \E a \in DeptActorInputs, c \in {"e1", "e3"},
                          b \in DeptCreateInputs :
          create_sms_ticket(a, c, b[1], b[2]) /\ Bounded(MaxTime)
    \/ Wrote(last) /\ \E a \in DeptActorInputs, c \in {"e1", "e3"},
                          b \in DeptCreateInputs :
          create_voice_ticket(a, c, b[1], b[2]) /\ Bounded(MaxTime)
    \/ Wrote(last) /\ \E a \in DeptActorInputs, i \in TicketIdInputs,
                          b \in DeptUpdateInputs :
          update_sms_ticket(a, i, b[1], b[2]) /\ Bounded(MaxTime)
    \/ Wrote(last) /\ \E a \in DeptActorInputs, i \in TicketIdInputs,
                          b \in DeptUpdateInputs :
          update_voice_ticket(a, i, b[1], b[2]) /\ Bounded(MaxTime)
    \/ Wrote(last) /\ \E a \in DeptActorInputs, i \in TicketIdInputs :
          add_sms_ticket_action(a, i) /\ Bounded(MaxTime)
    \/ Wrote(last) /\ \E a \in DeptActorInputs, i \in TicketIdInputs :
          add_voice_ticket_action(a, i) /\ Bounded(MaxTime)

SpecDept == Init /\ [][NextDept]_vars

\* ----------------------------------------- specification: assignment stamp
\* one NOC caller, a client without account manager, and the request bodies
\* that move a ticket in and out of "Assigned" and between assignees
AssignCreateInputs == {<<"Unassigned", None>>, <<"Assigned", "n1">>}

AssignUpdateInputs ==
    {<<s, t>> : s \in {None, "Assigned", "Resolved"},
                t \in {None, Empty, "n1", "n2"}}

NextAssign ==
    \/ Wrote(last) /\ \E b \in AssignCreateInputs :
          create_sms_ticket("n1", "e3", b[1], b[2]) /\ Bounded(MaxAssignTime)
    \/ Wrote(last) /\ \E b \in AssignCreateInputs :
          create_voice_ticket("n1", "e3", b[1], b[2]) /\ Bounded(MaxAssignTime)
    \/ Wrote(last) /\ \E i \in TicketIdInputs, b \in AssignUpdateInputs :
          update_sms_ticket("n1", i, b[1], b[2]) /\ Bounded(MaxAssignTime)
    \/ Wrote(last) /\ \E i \in TicketIdInputs, b \in AssignUpdateInputs :
          update_voice_ticket("n1", i, b[1], b[2]) /\ Bounded(MaxAssignTime)

SpecAssign == Init /\ [][NextAssign]_vars

\* -------------------------------------------- specification: role resolution
\* the department of "n1" carries any capability flags and ticket type, or
\* "n1" has no department, or its department_id names no department
DeptRecords ==
    {Dept(t, eu, ct, ee, et, "NOC") :
        t \in {"sms", "voice", "all"}, eu \in BOOLEAN, ct \in BOOLEAN,
        ee \in BOOLEAN, et \in BOOLEAN}

InitRole ==
    /\ \E r \in DeptRecords :
         departments = [init_default_departments EXCEPT !["dept_noc"] = r]
    /\ \E d \in {"dept_noc", None, "dept_gone"} :
         users = [InitUsers(<<{}, PrefKeys>>) EXCEPT !["n1"].department_id = d]
    /\ InitEmpty

NextRole ==
    Wrote(last) /\ \E a \in {"n1"} : get_ticket_modification_notifications(a)

SpecRole == InitRole /\ [][NextRole]_vars

\* ------------------------------------------- specification: the NOC roster
\* an administrator moves "n2" and "a1" between departments while an account
\* manager and NOC members add actions to tickets
MaxRosterWrites == 4      \* audit records (one per write) per run of SpecRoster

RosterPrefInputs == {<<{}, {}>>, <<{}, {"notify_on_am_action"}>>}

RosterMoveInputs ==
    {<<"n2", "dept_sms_sales">>, <<"n2", "dept_noc">>, <<"a1", "dept_noc">>,
     <<"u0", "dept_noc">>}

InitRoster ==
    /\ departments = init_default_departments
    /\ \E off \in RosterPrefInputs : users = InitUsers(off)
    /\ InitEmpty

BoundedRoster ==
    Bounded(MaxRosterWrites) /\ Len(audit_logs') <= MaxRosterWrites

NextRoster ==
    \/ Wrote(last) /\ \E a \in AdminInputs, m \in RosterMoveInputs :
          update_user(a, m[1], m[2]) /\ BoundedRoster
    \/ Wrote(last) /\ create_sms_ticket("n1", "e3", "Unassigned", None)
          /\ BoundedRoster
    \/ Wrote(last) /\ create_voice_ticket("n1", "e3", "Unassigned", None)
          /\ BoundedRoster
    \/ Wrote(last) /\ \E a \in {"a1", "n2"}, i \in TicketIdInputs :
          add_sms_ticket_action(a, i) /\ BoundedRoster
    \/ Wrote(last) /\ \E a \in {"a1", "n2"}, i \in TicketIdInputs :
          add_voice_ticket_action(a, i) /\ BoundedRoster

SpecRoster == InitRoster /\ [][NextRoster]_vars

\* ------------------------------------- specification: failing inserts
\* "a2" has been moved into NOC, so that a fan-out has several recipients;
\* one of the inserts a handler awaits after writing the ticket may raise
FaultInputs == 0 .. 4

InitFault ==
    /\ departments = init_default_departments
    /\ users = [InitUsers(<<{}, {}>>) EXCEPT !["a2"].department_id = "dept_noc"]
    /\ InitEmpty

NextFault ==
    \/ Wrote(last) /\ \E c \in {"e1", "e3"}, b \in DeptCreateInputs,
                          f \in FaultInputs :
          create_sms_ticket_run("n1", c, b[1], b[2], f) /\ Bounded(MaxTime)
    \/ Wrote(last) /\ \E a \in {"n1", "n2"}, i \in TicketIdInputs,
                          b \in DeptUpdateInputs, f \in FaultInputs :
          update_sms_ticket_run(a, i, b[1], b[2], f) /\ Bounded(MaxTime)
    \/ Wrote(last) /\ \E a \in DeptActorInputs, i \in TicketIdInputs,
                          f \in FaultInputs :
          add_ticket_action_run("sms", a, i, f) /\ Bounded(MaxTime)

SpecFault == InitFault /\ [][NextFault]_vars

\* ------------------------------------------- specification: live push
\* "n1" and "a1" open sockets while tickets are created and acted on
ConversationInputs == {{"n1", "a1"}}

NextPush ==
    \/ Wrote(last) /\ \E w \in Websockets, u \in DeptActorInputs :
          websocket_data(w, u)
    \/ Wrote(last) /\ \E w \in Websockets : websocket_close(w)
    \/ Wrote(last) /\ \E w \in Websockets : websocket_disconnect(w)
    \/ Wrote(last) /\ \E w \in Websockets, p \in ConversationInputs :
          websocket_chat_typing(w, p)
    \/ Wrote(last) /\ create_sms_ticket("n1", "e1", "Unassigned", None)
                   /\ Bounded(MaxTime)
    \/ Wrote(last) /\ \E i \in TicketIdInputs :
          add_sms_ticket_action("a1", i) /\ Bounded(MaxTime)

SpecPush == Init /\ [][NextPush]_vars

\* ------------------------------------- specification: notification inbox
\* tickets are created, reassigned and acted on, the recipients list and mark
\* their notifications; the administrator may take can_edit_tickets from NOC,
\* which leaves its members without a role
MaxNotifications == 5

NotifyCreateInputs ==
    {<<"Unassigned", None>>, <<"Assigned", "n2">>, <<"Assigned", "a1">>}

NotifyUpdateInputs == {<<"Assigned", "n2">>, <<"Resolved", None>>}

NotifyReaderInputs == {"a1", "n1", "n2"}

BoundedNotify == Bounded(MaxTime) /\ Len(notifications') <= MaxNotifications

NextNotify ==
    \/ Wrote(last) /\ \E b \in NotifyCreateInputs :
          create_sms_ticket("n1", "e1", b[1], b[2]) /\ BoundedNotify
    \/ Wrote(last) /\ \E i \in TicketIdInputs, b \in NotifyUpdateInputs :
          update_sms_ticket("n1", i, b[1], b[2]) /\ BoundedNotify
    \/ Wrote(last) /\ \E i \in TicketIdInputs :
          add_sms_ticket_action("a1", i) /\ BoundedNotify
    \/ Wrote(last) /\ \E a \in NotifyReaderInputs :
          get_ticket_modification_notifications(a)
    \/ Wrote(last) /\ \E a \in NotifyReaderInputs,
                          i \in 1 .. MaxNotifications + 1 :
          mark_notification_as_read(a, i)
    \/ Wrote(last) /\ update_department("ad", "dept_noc", "can_edit_tickets",
                                        FALSE)
                   /\ BoundedNotify

SpecNotify == Init /\ [][NextNotify]_vars

\* ------------------------------- specification: department type edits
\* the administrator changes the ticket type of a sales department while its
\* members list tickets
ScopeEditInputs ==
    {<<"dept_voice_sales", "department_type", "sms">>,
     <<"dept_sms_sales", "department_type", "voice">>}

NextScope ==
    \/ Wrote(last) /\ \E a \in AdminInputs, e \in ScopeEditInputs :
          update_department(a, e[1], e[2], e[3]) /\ Bounded(MaxTime)
    \/ Wrote(last) /\ \E k \in Kinds, c \in ClientIds, b \in DeptCreateInputs :
          /\ IF k = "sms" THEN create_sms_ticket("n1", c, b[1], b[2])
                          ELSE create_voice_ticket("n1", c, b[1], b[2])
          /\ Bounded(MaxTime)
    \/ Wrote(last) /\ \E a \in ActorInputs : get_sms_tickets(a)
    \/ Wrote(last) /\ \E a \in ActorInputs : get_voice_tickets(a)

SpecScope == Init /\ [][NextScope]_vars

\* --------------------------------- specification: concurrent updates
\* two update requests on the same ticket may both have read it before either
\* writes
MaxRaceTime == 3

RaceCreateInputs == {<<"Assigned", "n2">>, <<"Unassigned", None>>}

RaceUpdateInputs ==
    {<<"Assigned", None>>, <<"Resolved", None>>, <<"Resolved", Empty>>}

NextRace ==
    \/ Wrote(last) /\ \E b \in RaceCreateInputs :
          create_sms_ticket("n1", "e1", b[1], b[2]) /\ Bounded(MaxRaceTime)
    \/ Wrote(last) /\ \E t \in Tasks, a \in {"n1", "n2"}, i \in TicketIdInputs,
                          b \in RaceUpdateInputs :
          update_sms_ticket_read(t, a, i, b[1], b[2])
    \/ Wrote(last) /\ \E t \in Tasks :
          update_sms_ticket_write(t) /\ Bounded(MaxRaceTime)

SpecRace == Init /\ [][NextRace]_vars

\* ------------------------------- specification: the connection registry
\* sockets of "n1" and "a1" are opened and closed while a broadcast to them is
\* under way; "u0" is the subject of a token whose user is gone
MaxSends == 1

\* <<websocket, subject of its token, endpoint>>
AcceptInputs ==
    {<<"w1", "n1", "data">>, <<"w1", "u0", "data">>, <<"w2", "n1", "chat">>,
     <<"w2", "a1", "chat">>, <<"w3", "n1", "chat">>, <<"w3", "a1", "chat">>}

BroadcastInputs == {<<"n1", "a1">>, <<"a1">>}

NextRegistry ==
    \/ \E c \in AcceptInputs : websocket_accept(c[1], c[2], c[3])
    \/ \E w \in Websockets, ok \in BOOLEAN : websocket_liveness(w, ok)
    \/ \E w \in Websockets, ok \in BOOLEAN : websocket_welcome(w, ok)
    \/ \E w \in Websockets : websocket_peer_close(w)
    \/ \E w \in Websockets : websocket_end(w)
    \/ \E p \in BroadcastInputs : broadcast_to_conversation(p, MaxSends)
    \/ send_personal_message_begin
    \/ send_personal_message_next
    \/ \E ok \in BOOLEAN : send_personal_message_sent(ok)

SpecRegistry == Init /\ [][NextRegistry]_vars

\* ------------------------------------------------------------ properties
ActorDept(u) == get_user_department(get_current_user(u))

ActorRole(u) == get_user_role_from_department(ActorDept(u))

ActorScope(u) == get_user_ticket_type(ActorDept(u))

\* the notification documents inserted by the step
Inserted == SubSeq(notifications', Len(notifications) + 1, Len(notifications'))

OfType(docs, types) == SelectSeq(docs, LAMBDA n : n.event_type \in types)

TicketOp(ops) == last'.op \in ops

Succeeded(ops) == last'.op \in ops /\ last'.outcome = "ok"

\* status and assignee the ticket would have after the request `req`
ResultingStatus(req) ==
    IF req.op = "update" /\ req.status = None
    THEN tickets[req.tid].status ELSE req.status

ResultingAssignee(req) ==
    IF req.op = "update" /\ req.assigned_to = None
    THEN tickets[req.tid].assigned_to ELSE req.assigned_to

C2_AssignedAtStamp ==
    [][Succeeded({"update"}) =>
         LET pre == tickets[last'.tid]
             post == tickets'[last'.tid]
         IN  IF /\ post.status = "Assigned"
                /\ ~Falsy(post.assigned_to)
                /\ post.assigned_to # pre.assigned_to
             THEN post.assigned_at = now
             ELSE post.assigned_at = pre.assigned_at]_vars

\* the update naming the assignee the ticket already had kept the older stamp
C2_Witness ==
    /\ last.op = "update" /\ last.outcome = "ok"
    /\ last.status = "Assigned"
    /\ last.assigned_to = tickets[last.tid].assigned_to
    /\ tickets[last.tid].assigned_at # NoTime
    /\ tickets[last.tid].assigned_at < tickets[last.tid].updated_at

\* the role the priority table gives for four capability flags
RoleOfFlags(editUsers, createTickets, editEnterprises, editTickets) ==
    CASE editUsers -> "admin"
      [] ~editUsers /\ createTickets /\ ~editEnterprises -> "am"
      [] ~editUsers /\ ~(createTickets /\ ~editEnterprises) /\ editTickets
            -> "noc"
      [] OTHER -> "unknown"

C4_ScopeChecked ==
    /\ last.op \in {"create", "list", "get", "update", "add_action"}
    /\ last.outcome = "ok"
    => ActorScope(last.actor) \in {"all", last.kind}

\* C5: a create_sms_ticket or create_voice_ticket request of an actor whose
\* derived role is am is never served: the actor of a served create request
\* has a role other than am.
C5_AmCannotCreate ==
    last.op = "create" /\ last.outcome = "ok" => ActorRole(last.actor) # "am"

\* C6: an update_sms_ticket or update_voice_ticket request of an actor whose
\* derived role is am is never served: the actor of a served update request
\* has a role other than am.
C6_AmCannotUpdate ==
    last.op = "update" /\ last.outcome = "ok" => ActorRole(last.actor) # "am"

\* C7: a create or update request that ends in the authorization error or in
\* the not-found error leaves tickets, notifications and audit log exactly as
\* they were.
C7_ErrorsWriteNothing ==
    [][/\ TicketOp({"create", "update"})
       /\ last'.outcome \in {"forbidden", "not_found"}
       => UNCHANGED <<tickets, notifications, audit_logs>>]_vars

\* an update named a ticket id that exists in the other collection only, after
\* a create had written a ticket, a notification and an audit record
C7_Witness ==
    /\ last.op = "update" /\ last.outcome = "not_found"
    /\ last.tid \in DOMAIN tickets
    /\ tickets[last.tid].kind # last.kind
    /\ notifications # << >>
    /\ audit_logs # << >>

\* the account manager of the client exists and may see tickets of the kind
AmInScope(am, kind) == ~Falsy(am) /\ ActorScope(am) \in {"all", kind}

\* C8: a successful create for enterprise E by actor N inserts exactly one
\* "created" notification, addressed to E's account manager, when E has an
\* account manager whose ticket type matches the kind, who is not N and whose
\* notify_on_ticket_created is not false, and none otherwise; nothing is
\* addressed to N; without an assignee nothing but "created" is inserted.
C8_CreatedNotification ==
    [][Succeeded({"create"}) =>
         LET am == clients[last'.customer_id].assigned_am_id
             due == /\ AmInScope(am, last'.kind)
                    /\ am # last'.actor
                    /\ PrefEnabled(users[am], "notify_on_ticket_created")
             created == OfType(Inserted, {"created"})
         IN  /\ IF due
                THEN Len(created) = 1 /\ created[1].assigned_to = am
                ELSE created = << >>
             /\ \A i \in 1 .. Len(Inserted) :
                   Inserted[i].assigned_to # last'.actor
             /\ Falsy(last'.assigned_to) => Inserted = created]_vars

\* C9: a successful update to one of the six mapped statuses inserts exactly
\* one status notification, of the type mapped from the new status and
\* addressed to the enterprise's account manager, when the status changed and
\* the account manager is present, matches the kind, is not the actor and has
\* the matching preference not false; it inserts none otherwise.
C9_StatusNotification ==
    [][Succeeded({"update"}) =>
         LET pre == tickets[last'.tid]
             post == tickets'[last'.tid]
             am == clients[post.customer_id].assigned_am_id
             type == notification_type(post.status)
             due == /\ post.status # pre.status
                    /\ AmInScope(am, last'.kind)
                    /\ am # last'.actor
                    /\ PrefEnabled(users[am], preference_map[type])
             sent == OfType(Inserted, am_event_types)
         IN  type # None =>
                IF due
                THEN /\ Len(sent) = 1
                     /\ sent[1].event_type = type
                     /\ sent[1].assigned_to = am
                ELSE sent = << >>]_vars

\* C10: a successful update inserts a ticket_modification notification exactly
\* when, before the update, the ticket had an assignee, its status was
\* "Assigned" and the actor is not that assignee; it is then the only one and
\* addressed to that assignee, whatever the assignee's preference flags.
C10_PeerNotification ==
    [][Succeeded({"update"}) =>
         LET pre == tickets[last'.tid]
             peer == OfType(Inserted, {"ticket_modification"})
         IN  IF /\ ~Falsy(pre.assigned_to)
                /\ pre.status = "Assigned"
                /\ last'.actor # pre.assigned_to
             THEN /\ Len(peer) = 1
                  /\ peer[1].assigned_to = pre.assigned_to
                  /\ peer[1].ticket_id = last'.tid
             ELSE peer = << >>]_vars

\* the assignee "n2" has every preference flag off and was notified of an
\* update made by someone else
C10_Witness ==
    /\ last.op = "update" /\ last.outcome = "ok"
    /\ users["n2"].off = PrefKeys
    /\ \E i \in 1 .. Len(notifications) :
          /\ notifications[i].event_type = "ticket_modification"
          /\ notifications[i].assigned_to = "n2"
          /\ notifications[i].ticket_id = last.tid
          /\ notifications[i].modified_by = last.actor

\* the members of the NOC department that have the preference `key` not false
NocSubscribers(key) ==
    {u \in DOMAIN users :
        /\ users[u].department_id \in DOMAIN departments
        /\ departments[users[u].department_id].name = "NOC"
        /\ key \notin users[u].off}

\* the update changed a field of the ticket other than its updated_at stamp
FieldsChanged(pre, post) ==
    \E f \in {"status", "assigned_to", "assigned_at"} : pre[f] # post[f]

\* C11: a successful update by an actor whose derived role is noc that
\* changes a ticket field inserts exactly one noc_modification notification
\* for every NOC member other than the actor whose
\* notify_on_noc_ticket_modification is not false, whatever the ticket's status
\* and assignee; it inserts none for the actor and none when no field changes.
C11_NocModification ==
    [][Succeeded({"update"}) /\ ActorRole(last'.actor) = "noc" =>
         LET pre == tickets[last'.tid]
             post == tickets'[last'.tid]
             sent == OfType(Inserted, {"noc_modification"})
             due == IF FieldsChanged(pre, post)
                    THEN NocSubscribers("notify_on_noc_ticket_modification")
                            \ {last'.actor}
                    ELSE {}
         IN  /\ {sent[i].assigned_to : i \in 1 .. Len(sent)} = due
             /\ Len(sent) = Cardinality(due)]_vars

AmActionsFor(u) ==
    Len(SelectSeq(notifications,
                  LAMBDA n : n.event_type = "am_action" /\ n.assigned_to = u))

C13_ActionNotifications ==
    [][Succeeded({"add_action"}) =>
         /\ OfType(Inserted, {"ticket_modification", "noc_modification"})
               = << >>
         /\ IF ActorRole(last'.actor) = "am"
            THEN /\ Inserted = OfType(Inserted, {"am_action"})
                 /\ {Inserted[i].assigned_to : i \in 1 .. Len(Inserted)}
                       = NocSubscribers("notify_on_am_action")
            ELSE Inserted = << >>]_vars

\* a NOC member added an action to a ticket "Assigned" to a colleague and
\* nobody was notified of it
C13_Witness ==
    /\ last.op = "add_action" /\ last.outcome = "ok" /\ last.actor = "n1"
    /\ tickets[last.tid].status = "Assigned"
    /\ tickets[last.tid].assigned_to = "n2"
    /\ tickets[last.tid].actions = << "n1" >>
    /\ \A i \in 1 .. Len(notifications) :
          notifications[i].event_type \in am_event_types

\* C14: no notification inserted by a create, update or add-action request
\* is addressed to the user who made the request, whatever departments the
\* users are in and whatever capability flags an administrator has set.
C14_NoSelfNotification ==
    [][Succeeded({"create", "update", "add_action"}) =>
         \A i \in 1 .. Len(Inserted) :
            Inserted[i].assigned_to # last'.actor]_vars

\* the recipients of the fan-out the request `req` starts, as the handlers
\* decide it: the am_action fan-out of an action added by an am-role actor,
\* the noc_modification fan-out of an update by a noc-role actor of a ticket
\* "Assigned" to somebody else
FanOutDue(req) ==
    IF req.op = "add_action"
    THEN IF ActorRole(req.actor) = "am"
         THEN NocSubscribers("notify_on_am_action") ELSE {}
    ELSE IF /\ ActorRole(req.actor) = "noc"
            /\ should_notify(tickets[req.tid], req.actor)
         THEN NocSubscribers("notify_on_noc_ticket_modification") \ {req.actor}
         ELSE {}

\* the insert that raised is one of the fan-out: the audit record is insert 1,
\* the peer notice of an update insert 2
FanOutFault(req) ==
    LET first == IF req.op = "add_action" THEN 2 ELSE 3
    IN  /\ req.outcome = "error"
        /\ req.fault >= first
        /\ req.fault < first + Cardinality(FanOutDue(req))

\* C15: when the insert for one recipient of an am_action or noc_modification
\* fan-out fails, the notifications of all the other eligible recipients of
\* the event are still inserted: at most one eligible recipient is left out.
C15_FanOutIndependent ==
    [][TicketOp({"add_action", "update"}) /\ FanOutFault(last') =>
         LET sent == OfType(Inserted, {"am_action", "noc_modification"})
             got == {sent[i].assigned_to : i \in 1 .. Len(sent)}
         IN  Cardinality(FanOutDue(last') \ got) <= 1]_vars

\* C16: once a create or update has written the ticket, the request is
\* answered with the ticket even when the insert of the audit record or of a
\* notification fails.
C16_DownstreamNonFatal ==
    [][TicketOp({"create", "update"}) /\ tickets' # tickets =>
         last'.outcome = "ok"]_vars

\* C17: when a step inserts a notification for a recipient who has a
\* connected socket registered with the connection manager, a message of the
\* notification's event type is also sent on that socket.
C17_LivePush ==
    [][\A i \in 1 .. Len(Inserted) :
         \A w \in Connections({Inserted[i].assigned_to}) :
            client_state[w] = "CONNECTED" =>
               <<w, Inserted[i].event_type>> \in delivered']_vars

\* the request `req` marks a notification that exists and is addressed to
\* its caller
MarksOwn(req) ==
    /\ req.op = "mark_read"
    /\ req.tid \in DOMAIN notifications
    /\ notifications[req.tid].assigned_to = req.actor

\* C18: marking one's own notification as read succeeds and leaves it read,
\* also when it was read already; no step takes a notification from read back
\* to unread.
C18_MarkReadIdempotent ==
    [][/\ MarksOwn(last') =>
             last'.outcome = "ok" /\ notifications'[last'.tid].read
       /\ \A i \in DOMAIN notifications :
             notifications[i].read => notifications'[i].read]_vars

\* a second, successful marking of a notification that was read already
C18_Witness ==
    /\ last.op = "mark_read"
    /\ last.outcome = "ok"
    /\ last.result = {last.tid}
    /\ notifications[last.tid].read

\* the role the listing derives for the caller
ListingRole(u) == IF ActorDept(u).exists THEN ActorRole(u) ELSE "unknown"

\* C19: a listing holds only notifications addressed to the caller, of the
\* seven account-manager event kinds for role am, of am_action,
\* noc_modification and ticket_modification for roles noc and admin, and
\* nothing for any other role.
C19_ListingFiltered ==
    last.op = "list_notifications" =>
        \A i \in last.result :
           /\ notifications[i].assigned_to = last.actor
           /\ ListingRole(last.actor) \in {"am", "noc", "admin"}
           /\ ListingRole(last.actor) = "am" =>
                 notifications[i].event_type \in
                    {"created", "assigned", "awaiting_vendor",
                     "awaiting_client", "awaiting_am", "resolved",
                     "unresolved"}
           /\ ListingRole(last.actor) \in {"noc", "admin"} =>
                 notifications[i].event_type \in
                    {"am_action", "noc_modification", "ticket_modification"}

\* a NOC member lists its notifications while another user has some too,
\* and a caller without role is answered an empty list although it has some
C19_Witness ==
    /\ last.op = "list_notifications"
    /\ \/ /\ last.result # {}
          /\ ListingRole(last.actor) = "noc"
          /\ \E i \in DOMAIN notifications :
                notifications[i].assigned_to # last.actor
       \/ /\ last.result = {}
          /\ ListingRole(last.actor) = "unknown"
          /\ \E i \in DOMAIN notifications :
                notifications[i].assigned_to = last.actor

\* C20: notifications are only appended, unread, by the create, update and
\* add-action handlers; afterwards nothing but `read` changes, and only by
\* markNotificationRead, on the notification of the given id and only when it
\* is addressed to the caller; otherwise the call is answered not-found and
\* changes nothing.
C20_OnlyReadChanges ==
    [][/\ Len(notifications') >= Len(notifications)
       /\ \A i \in 1 .. Len(Inserted) : ~Inserted[i].read
       /\ Len(Inserted) > 0 => Succeeded({"create", "update", "add_action"})
       /\ \A i \in DOMAIN notifications :
             /\ notifications'[i] =
                   [notifications[i] EXCEPT !.read = notifications'[i].read]
             /\ notifications'[i] # notifications[i] =>
                   MarksOwn(last') /\ i = last'.tid
       /\ TicketOp({"mark_read"}) /\ ~MarksOwn(last') =>
             last'.outcome = "not_found" /\ notifications' = notifications]_vars

\* a caller was answered not-found for an unread notification of somebody
\* else, which stays unread
C20_Witness ==
    /\ last.op = "mark_read"
    /\ last.outcome = "not_found"
    /\ last.tid \in DOMAIN notifications
    /\ notifications[last.tid].assigned_to # last.actor
    /\ ~notifications[last.tid].read

\* C25: once a department has been edited, a listing of tickets of kind k by
\* one of its members is served only if the department's ticket type, as it
\* is stored now, is "all" or k; and the edit writes no user record.
C25_EditTakesEffect ==
    [][/\ /\ deptEdits > 0
          /\ Succeeded({"list"})
          /\ ActorDept(last'.actor).exists
          => ActorScope(last'.actor) \in {"all", last'.kind}
       /\ TicketOp({"update_department"}) => users' = users]_vars

\* C26: for an actor whose department covers both kinds (ticket type "all"),
\* a create request is served for an SMS ticket exactly when the same request
\* is served for a Voice ticket.
C26_KindsAgree ==
    \A a \in DeptActorInputs, c \in ClientIds, b \in DeptCreateInputs :
       ActorScope(a) = "all" =>
          ((ENABLED (create_sms_ticket(a, c, b[1], b[2])
                        /\ last'.outcome = "ok"))
             <=> (ENABLED (create_voice_ticket(a, c, b[1], b[2])
                             /\ last'.outcome = "ok")))

\* C30: a listing of a caller with at most 20 notifications returns every
\* notification addressed to the caller.
C30_EveryNotificationListed ==
    LET mine == {i \in DOMAIN notifications :
                    notifications[i].assigned_to = last.actor}
    IN  last.op = "list_notifications" /\ Cardinality(mine) <= 20
           => last.result = mine

\* C27: no stored ticket has status "Assigned" with a null or empty
\* assigned_to, also when update requests overlap.
C27_AssignedHasAssignee ==
    \A t \in DOMAIN tickets :
       tickets[t].status = "Assigned" => ~Falsy(tickets[t].assigned_to)

\* C28: an update inserts a status notification for the account manager only
\* in a step that changes the stored status of the ticket, so that there are
\* as many such notifications as changes of the stored status.
C28_OneNotificationPerChange ==
    [][TicketOp({"update"})
          /\ Len(OfType(Inserted, am_event_types \ {"created"})) > 0
       => tickets'[last'.tid].status # tickets[last'.tid].status]_vars

\* the pairs <<websocket, user>> of the two maps of the registry
ByUser ==
    UNION {{<<w, u>> : w \in active_connections[u]} :
              u \in DOMAIN active_connections}

ByWebsocket == {<<w, connection_users[w]>> : w \in DOMAIN connection_users}

\* C21: after every step of the endpoints and of a broadcast the two maps of
\* the registry hold the same <<websocket, user>> pairs and no user has an
\* empty set; a connect adds its websocket for one user and removes nothing;
\* the disconnect at the end of an endpoint removes its websocket and nothing
\* else.
C21_RegistryConsistent ==
    [][/\ ByUser' = ByWebsocket'
       /\ \A u \in DOMAIN active_connections' : active_connections'[u] # {}
       /\ \A w \in Websockets :
             /\ handler[w] = "new" /\ handler'[w] \in {"chat", "data"} =>
                   \E u \in DOMAIN users :
                      /\ <<w, u>> \notin ByUser
                      /\ ByUser' = ByUser \cup {<<w, u>>}
             /\ handler[w] = "running" /\ handler'[w] = "done" =>
                   ByUser' = {p \in ByUser : p[1] # w}]_vars

\* "w1" was registered, welcomed and disconnected at the end of its endpoint,
\* and the two other websockets are registered for one user
C21_Witness ==
    /\ <<"w1", "connected">> \in delivered
    /\ handler["w1"] = "done"
    /\ "w1" \notin DOMAIN connection_users
    /\ \E u \in DOMAIN active_connections :
          active_connections[u] = {"w2", "w3"}

\* C22: when send_personal_message for a user ends, every connection that was
\* registered for the user when it began and still is has been tried or
\* found not connected, and no connection it found undeliverable is
\* registered any more.
C22_SendCleansUp ==
    [][sending.state = "iterating" /\ sending'.state \in {"busy", "raised"} =>
         /\ \A c \in sending.started :
               c \in sending'.visited \/ c \notin DOMAIN connection_users'
         /\ sending'.disconnected \cap DOMAIN connection_users' = {}]_vars

\* C23: while a send loop is suspended at a send_json, the set it iterates is
\* the set it began with.
C23_IteratedSetStable ==
    sending.state = "sending" => IteratedSet = sending.started

\* C24: a broadcast does not end while a target user it has not served yet
\* has a connected websocket registered.
C24_BroadcastGoesOn ==
    [][sending.state = "iterating" /\ sending'.state = "raised" =>
         \A i \in 1 .. Len(sending'.targets) :
            \A c \in Connections({sending'.targets[i]}) :
               client_state[c] # "CONNECTED"]_vars

\* C29: a websocket whose endpoint coroutine has ended is in neither map of
\* the registry.
C29_EndedNotRegistered ==
    \A w \in Websockets :
       handler[w] = "done" =>
          /\ w \notin DOMAIN connection_users
          /\ \A u \in DOMAIN active_connections : w \notin active_connections[u]

====
